---- MODULE Spec2Model ----
(***************************************************************************)
(* RDParser.js: a recursive-descent parser over sticky regular expressions *)
(* that evaluates while it parses.  The model keeps the program's state    *)
(* (each Parser instance's `variables`, the module-wide factorialCache)    *)
(* and one action, Evaluate, which is a whole call of Parser.evaluate.     *)
(* Text is a string; a position is 0-based as in the source.               *)
(*                                                                         *)
(* Number domain.  A JS value is the record [t, n]: t = "boolean" with n   *)
(* in {0,1}, t = "int" with n an integer, or one of the non-integer number *)
(* values "Infinity", "-Infinity", "NaN", "PI" (n unused).  Arithmetic is  *)
(* defined where the result is an integer or one of those values; a CASE   *)
(* without a matching arm stops TLC, so no unmodelled result is invented.  *)
(***************************************************************************)
EXTENDS Integers, Sequences, FiniteSets, TLC

VARIABLES variables, factorialCache, last, calls

vars == <<variables, factorialCache, last, calls>>

\* How many evaluate calls one behaviour makes.
MaxCalls == 2

\* The Parser instances of one behaviour.
Parsers == {"P1", "P2"}

----------------------------------------------------------------------------
(* JS values *)

Num(n) == [t |-> "int", n |-> n]
Bool(b) == [t |-> "boolean", n |-> IF b THEN 1 ELSE 0]
Special(s) == [t |-> s, n |-> 0]

IsInt(v) == v.t \in {"boolean", "int"}

\* ToNumber of a boolean or an integer number.
ToNumber(v) == CASE IsInt(v) -> v.n

ToBoolean(v) ==
    CASE IsInt(v) -> v.n # 0
      [] v.t = "NaN" -> FALSE
      [] v.t \in {"Infinity", "-Infinity", "PI"} -> TRUE

\* ToInt32 (x | 0): NaN and the infinities give 0, PI truncates to 3.
ToInt32(v) ==
    CASE IsInt(v) -> v.n
      [] v.t \in {"NaN", "Infinity", "-Infinity"} -> 0
      [] v.t = "PI" -> 3

Abs(n) == IF n < 0 THEN -n ELSE n

RECURSIVE Pow(_, _)
Pow(a, b) == IF b = 0 THEN 1 ELSE a * Pow(a, b - 1)

\* Math.pow on integers; a negative exponent is an integer only for a base of 1 or -1.
MathPow(a, b) ==
    CASE b >= 0 -> Num(Pow(a, b))
      [] b < 0 /\ a = 1 -> Num(1)
      [] b < 0 /\ a = -1 -> Num(IF (-b) % 2 = 0 THEN 1 ELSE -1)
      [] b < 0 /\ a = 0 -> Special("Infinity")

\* a / b: exact quotients and division by zero.
Divide(a, b) ==
    CASE b = 0 /\ a > 0 -> Special("Infinity")
      [] b = 0 /\ a < 0 -> Special("-Infinity")
      [] b = 0 /\ a = 0 -> Special("NaN")
      [] b # 0 /\ Abs(a) % Abs(b) = 0 ->
            Num((IF (a < 0) = (b < 0) THEN 1 ELSE -1) * (Abs(a) \div Abs(b)))

\* a % b: the truncating remainder, with the dividend's sign.
Remainder(a, b) ==
    IF b = 0 THEN Special("NaN")
    ELSE Num((IF a < 0 THEN -1 ELSE 1) * (Abs(a) % Abs(b)))

\* Two's-complement bitwise operators on signed integers; f is the bit function.
RECURSIVE Bitwise(_, _, _)
Bitwise(f, a, b) ==
    IF a \in {0, -1} /\ b \in {0, -1}
    THEN -f[-a][-b]
    ELSE 2 * Bitwise(f, a \div 2, b \div 2) + f[a % 2][b % 2]

BitAnd == [x \in {0, 1} |-> [y \in {0, 1} |-> IF x = 1 /\ y = 1 THEN 1 ELSE 0]]
BitOr == [x \in {0, 1} |-> [y \in {0, 1} |-> IF x = 1 \/ y = 1 THEN 1 ELSE 0]]
BitXor == [x \in {0, 1} |-> [y \in {0, 1} |-> IF x # y THEN 1 ELSE 0]]

\* One step of a 32-bit left shift: the top bit falls off, bit 30 becomes the sign.
ShiftLeft1(a) ==
    LET m == a % 1073741824          \* the low 30 bits
        s == (a \div 1073741824) % 2 \* bit 30
    IN IF s = 1 THEN (2 * m - 2147483647) - 1 ELSE 2 * m

RECURSIVE ShiftLeft(_, _)
ShiftLeft(a, s) == IF s = 0 THEN a ELSE ShiftLeft(ShiftLeft1(a), s - 1)

\* a >> s on an int32: the arithmetic shift is the floor division.
ShiftRight(a, s) == a \div Pow(2, s)

\* a >>> s: the shift of the unsigned reading of a.
ShiftRightUnsigned(a, s) ==
    CASE a >= 0 -> a \div Pow(2, s)
      [] a < 0 /\ s > 0 -> (((a \div 2) + 2147483647) + 1) \div Pow(2, s - 1)

\* ==, on booleans and integer numbers: both sides go through ToNumber.
LooseEquals(a, b) ==
    CASE IsInt(a) /\ IsInt(b) -> a.n = b.n
      [] a.t = "NaN" \/ b.t = "NaN" -> FALSE
      [] ~(IsInt(a) /\ IsInt(b)) /\ a.t # "NaN" /\ b.t # "NaN" -> a.t = b.t

\* ===: the same type and the same value.
StrictEquals(a, b) ==
    IF a.t = "NaN" \/ b.t = "NaN" THEN FALSE
    ELSE IF (a.t = "boolean") # (b.t = "boolean") THEN FALSE
    ELSE a = b

----------------------------------------------------------------------------
(* Expression: the scanner *)

WhitespaceChars == {" ", "\t", "\n", "\r", "\f"}
DigitChars == {"0", "1", "2", "3", "4", "5", "6", "7", "8", "9"}
LetterChars ==
    {"a", "b", "c", "d", "e", "f", "g", "h", "i", "j", "k", "l", "m",
     "n", "o", "p", "q", "r", "s", "t", "u", "v", "w", "x", "y", "z",
     "A", "B", "C", "D", "E", "F", "G", "H", "I", "J", "K", "L", "M",
     "N", "O", "P", "Q", "R", "S", "T", "U", "V", "W", "X", "Y", "Z", "_"}

\* The character at 0-based position i, "" past the end.
At(text, i) == IF i >= 0 /\ i < Len(text) THEN SubSeq(text, i + 1, i + 1) ELSE ""

\* text.slice(pos, pos + n)
Slice(text, pos, n) == SubSeq(text, pos + 1, pos + n)

\* Whether the literal lit stands at pos.
Looking(text, pos, lit) ==
    pos + Len(lit) <= Len(text) /\ Slice(text, pos, Len(lit)) = lit

\* The length of the longest run of characters of S from pos.
RECURSIVE Run(_, _, _)
Run(text, pos, S) == IF At(text, pos) \in S THEN 1 + Run(text, pos + 1, S) ELSE 0

\* Every reg* below is the length the sticky regex matches at pos, 0 for no match
\* (no pattern of the program matches the empty string).

\* /\s+/y
regWhitespace(text, pos) == Run(text, pos, WhitespaceChars)

skipWhitespace(text, pos) == pos + regWhitespace(text, pos)

\* accept: the position after a match of length m > 0 and the whitespace behind it.
accept(text, pos, m) == skipWhitespace(text, pos + m)

remaining(text, pos) == IF pos < Len(text) THEN SubSeq(text, pos + 1, Len(text)) ELSE ""

\* /[a-zA-Z_][a-zA-Z_\d]*/y
regIdent(text, pos) ==
    IF At(text, pos) \in LetterChars
    THEN 1 + Run(text, pos + 1, LetterChars \cup DigitChars)
    ELSE 0

\* /\d+(\.\d+)?([eE]\d+)?/y
regNumber(text, pos) ==
    LET d == Run(text, pos, DigitChars)
        fd == Run(text, pos + d + 1, DigitChars)
        f == IF At(text, pos + d) = "." /\ fd > 0 THEN 1 + fd ELSE 0
        ed == Run(text, pos + d + f + 1, DigitChars)
        e == IF At(text, pos + d + f) \in {"e", "E"} /\ ed > 0 THEN 1 + ed ELSE 0
    IN IF d = 0 THEN 0 ELSE d + f + e

\* /\+\+|--|\+|-|!|~/y
regPrefix(text, pos) ==
    IF Looking(text, pos, "++") \/ Looking(text, pos, "--") THEN 2
    ELSE IF At(text, pos) \in {"+", "-", "!", "~"} THEN 1
    ELSE 0

\* /(\+\+)|(--)/y
regPostfix(text, pos) ==
    IF Looking(text, pos, "++") \/ Looking(text, pos, "--") THEN 2 ELSE 0

regOpenParenthesis(text, pos) == IF At(text, pos) = "(" THEN 1 ELSE 0
regClosingParenthesis(text, pos) == IF At(text, pos) = ")" THEN 1 ELSE 0

\* /\s*;[;\s]*/y
regEOS(text, pos) ==
    LET w == Run(text, pos, WhitespaceChars)
    IN IF At(text, pos + w) = ";"
       THEN w + 1 + Run(text, pos + w + 1, WhitespaceChars \cup {";"})
       ELSE 0

\* The first literal of the alternation lits (in order) that stands at pos and is
\* not followed by one of the characters of notNext: a|b|c followed by (?!x|y),
\* with the backtracking into the next alternative when the lookahead fails.
RECURSIVE FirstOf(_, _, _, _)
FirstOf(text, pos, lits, notNext) ==
    IF lits = <<>> THEN 0
    ELSE IF Looking(text, pos, Head(lits))
            /\ At(text, pos + Len(Head(lits))) \notin notNext
         THEN Len(Head(lits))
         ELSE FirstOf(text, pos, Tail(lits), notNext)

\* Parser.prototype.rules.length
NumRules == 14

\* Parser.prototype.rules[lvl], the operators of one precedence level.
rules(lvl, text, pos) ==
    CASE lvl = 0 -> FirstOf(text, pos, <<",">>, {})
      [] lvl = 1 -> FirstOf(text, pos, <<"=", "+=", "-=", "**=", "*=", "/=", "%=",
                                         "<<=", ">>>=", ">>=", "&=", "^=", "|=">>, {})
      [] lvl = 2 -> FirstOf(text, pos, <<"||">>, {})
      [] lvl = 3 -> FirstOf(text, pos, <<"&&">>, {})
      [] lvl = 4 -> FirstOf(text, pos, <<"|">>, {"|", "="})
      [] lvl = 5 -> FirstOf(text, pos, <<"^">>, {"="})
      [] lvl = 6 -> FirstOf(text, pos, <<"&">>, {"&", "="})
      [] lvl = 7 -> FirstOf(text, pos, <<"===", "==", "!==", "!=">>, {})
      [] lvl = 8 -> FirstOf(text, pos, <<">>>", ">>", "<<">>, {"="})
      [] lvl = 9 ->
            \* /<=?(?!<)|>=?(?!>)/y: the optional = is given back when the lookahead fails
            LET lt == FirstOf(text, pos, <<"<=", "<">>, {"<"})
            IN IF lt > 0 THEN lt ELSE FirstOf(text, pos, <<">=", ">">>, {">"})
      [] lvl = 10 ->
            \* /(\+(?!\+)|-(?!-))(?!=)/y
            LET p == FirstOf(text, pos, <<"+">>, {"+", "="})
            IN IF p > 0 THEN p ELSE FirstOf(text, pos, <<"-">>, {"-", "="})
      [] lvl = 11 ->
            \* /(\*(?!\*)|\/|%)(?!=)/y
            LET p == FirstOf(text, pos, <<"*">>, {"*", "="})
            IN IF p > 0 THEN p ELSE FirstOf(text, pos, <<"/", "%">>, {"="})
      [] lvl = 12 -> FirstOf(text, pos, <<"**">>, {"="})
      [] lvl = 13 -> FirstOf(text, pos, <<"!">>, {"="})

----------------------------------------------------------------------------
(* Bindings: Lvalue objects and the plain objects of `variables` *)

DigitValue(c) ==
    CASE c = "0" -> 0 [] c = "1" -> 1 [] c = "2" -> 2 [] c = "3" -> 3 [] c = "4" -> 4
      [] c = "5" -> 5 [] c = "6" -> 6 [] c = "7" -> 7 [] c = "8" -> 8 [] c = "9" -> 9

RECURSIVE DigitsValue(_, _)
DigitsValue(s, acc) ==
    IF s = "" THEN acc ELSE DigitsValue(SubSeq(s, 2, Len(s)), 10 * acc + DigitValue(At(s, 0)))

\* parseFloat of a match of regNumber, where the number is an integer.
parseFloat(s) ==
    LET d == Run(s, 0, DigitChars)
        fd == IF At(s, d) = "." THEN Run(s, d + 1, DigitChars) ELSE 0
        frac == Slice(s, d + 1, fd)
        epos == IF fd > 0 THEN d + 1 + fd ELSE d
        e == IF At(s, epos) \in {"e", "E"}
             THEN DigitsValue(SubSeq(s, epos + 2, Len(s)), 0) ELSE 0
        kept == IF e < fd THEN e ELSE fd
    IN CASE Run(frac, kept, {"0"}) = fd - kept ->
            Num(DigitsValue(Slice(s, 0, d) \o Slice(frac, 0, kept), 0) * Pow(10, e - kept))

\* A reference to a binding object.  The objects of `variables` (the six Lvalue
\* constants and the plain {value, lvalue: false} objects) are named by their key;
\* an Lvalue made during a call is named by its allocation index in st.tmp.
Null == [kind |-> "null", name |-> "", idx |-> 0]
VarRef(name) == [kind |-> "var", name |-> name, idx |-> 0]
TmpRef(i) == [kind |-> "tmp", name |-> "", idx |-> i]
ObjRef(i) == [kind |-> "obj", name |-> "", idx |-> i]

\* Parser's constructor: this.variables
NewVariables ==
    [k \in {"true", "false", "Infinity", "infinity", "PI", "pi"} |->
        [value |-> CASE k = "true" -> Bool(TRUE)
                     [] k = "false" -> Bool(FALSE)
                     [] k \in {"Infinity", "infinity"} -> Special("Infinity")
                     [] k \in {"PI", "pi"} -> Special("PI"),
         lvalue |-> TRUE]]

\* The state one evaluate call threads through the descent: the scanner's pos, the
\* own properties of the instance's variables object, the factorial cache, the
\* Lvalue objects made so far (tmp), the plain objects made so far that are no own
\* property of variables (objs), the thrown error's message ("" while none), the
\* binding the last rule returned, and the record of every operator applied
\* (operator, operand bindings, result).
NewState(vs, cache, pos) ==
    [pos |-> pos, variables |-> vs, cache |-> cache, tmp |-> <<>>, objs |-> <<>>,
     err |-> "", val |-> Null, applied |-> <<>>]

\* b.value
Read(st, b) ==
    CASE b.kind = "var" -> st.variables[b.name].value
      [] b.kind = "tmp" -> st.tmp[b.idx]
      [] b.kind = "obj" -> st.objs[b.idx]

\* b.lvalue: true on an Lvalue, false on a plain object { value: 0, lvalue: false }.
lvalue(st, b) ==
    CASE b.kind = "var" -> st.variables[b.name].lvalue
      [] b.kind = "tmp" -> TRUE
      [] b.kind = "obj" -> FALSE

\* new Lvalue(v): a fresh object; st.val names it.
Lvalue(st, v) ==
    [st EXCEPT !.tmp = Append(@, v), !.val = TmpRef(Len(st.tmp) + 1)]

throw(st, msg) == [st EXCEPT !.err = msg, !.val = Null]

\* b.value = v: Lvalue's setter throws, a plain object takes the value.
Write(st, b, v) ==
    IF lvalue(st, b)
    THEN throw(st, "Cannot assign to an lvalue")
    ELSE IF b.kind = "obj" THEN [st EXCEPT !.objs[b.idx] = v]
    ELSE [st EXCEPT !.variables[b.name].value = v]

----------------------------------------------------------------------------
(* factorial and the operator tables *)

\* An index of factorialCache never assigned (reads as undefined); n! is never 0.
Hole == 0

\* factorialCache[a] = v on a JS array: the array grows, leaving holes.  The
\* sequence's element i + 1 is the array's index i.
RECURSIVE SetIndex(_, _, _)
SetIndex(cache, a, v) ==
    IF a < Len(cache) THEN [cache EXCEPT ![a + 1] = v]
    ELSE IF a = Len(cache) THEN Append(cache, v)
    ELSE SetIndex(Append(cache, Hole), a, v)

\* A memo that stores the factorial of a - 1 at index a.
MemoizeStale(r, a) == [cache |-> SetIndex(r.cache, a, r.val), val |-> a * r.val]

\* factorialCache[a] = a * sub, where sub is what factorial(a - 1) gave.
Memoize(r, a) == [cache |-> SetIndex(r.cache, a, a * r.val), val |-> a * r.val]

\* factorial, on a already coerced by a |= 0; gives the cache and the value.
RECURSIVE factorial(_, _)
factorial(cache, a) ==
    IF a < 1 THEN [cache |-> cache, val |-> 1]
    ELSE IF Len(cache) > a THEN [cache |-> cache, val |-> cache[a + 1]]
    ELSE Memoize(factorial(cache, a - 1), a)

AssignmentOps ==
    {"=", "**=", "*=", "+=", "-=", "/=", "%=", ">>>=", ">>=", "<<=", "&=", "^=", "|="}

\* operations[op].exec.length
Arity(op) == IF op \in {"++", "--", "!"} THEN 1 ELSE 2

\* operations[op].right
right(op) == op \in AssignmentOps \cup {"**"}

\* +, -, *, /, %, ** on numbers: NaN in gives NaN out (but NaN ** 0 is 1).
Arithmetic(op, x, y) ==
    CASE op = "**" /\ IsInt(y) /\ ToNumber(y) = 0 -> Num(1)
      [] ~(op = "**" /\ IsInt(y) /\ ToNumber(y) = 0) /\ (x.t = "NaN" \/ y.t = "NaN") ->
            Special("NaN")
      [] op = "+" /\ IsInt(x) /\ IsInt(y) -> Num(ToNumber(x) + ToNumber(y))
      [] op = "-" /\ IsInt(x) /\ IsInt(y) -> Num(ToNumber(x) - ToNumber(y))
      [] op = "*" /\ IsInt(x) /\ IsInt(y) -> Num(ToNumber(x) * ToNumber(y))
      [] op = "/" /\ IsInt(x) /\ IsInt(y) -> Divide(ToNumber(x), ToNumber(y))
      [] op = "%" /\ IsInt(x) /\ IsInt(y) -> Remainder(ToNumber(x), ToNumber(y))
      [] op = "**" /\ IsInt(x) /\ IsInt(y) /\ ToNumber(y) # 0 ->
            MathPow(ToNumber(x), ToNumber(y))

\* <, <=, >, >= on numbers: a comparison with NaN is false.
Relational(op, x, y) ==
    IF x.t = "NaN" \/ y.t = "NaN" THEN FALSE
    ELSE CASE op = "<=" -> ToNumber(x) <= ToNumber(y)
           [] op = "<" -> ToNumber(x) < ToNumber(y)
           [] op = ">=" -> ToNumber(x) >= ToNumber(y)
           [] op = ">" -> ToNumber(x) > ToNumber(y)

\* The value an operator computes from its operands' values (the expression inside
\* new Lvalue(...), or the right-hand side of a compound assignment).
Compute(op, x, y) ==
    CASE op \in {"+", "-", "*", "/", "%", "**"} -> Arithmetic(op, x, y)
      [] op \in {"+=", "-=", "*=", "/=", "%="} -> Arithmetic(SubSeq(op, 1, 1), x, y)
      [] op = "**=" -> Arithmetic("**", x, y)
      [] op = "=" -> y
      [] op = "==" -> Bool(LooseEquals(x, y))
      [] op = "===" -> Bool(StrictEquals(x, y))
      [] op = "!=" -> Bool(~LooseEquals(x, y))
      [] op = "!==" -> Bool(~StrictEquals(x, y))
      [] op \in {"<=", "<", ">=", ">"} -> Bool(Relational(op, x, y))
      [] op = "||" -> IF ToBoolean(x) THEN x ELSE y
      [] op = "&&" -> IF ToBoolean(x) THEN y ELSE x
      [] op \in {"|", "|="} -> Num(Bitwise(BitOr, ToInt32(x), ToInt32(y)))
      [] op \in {"^", "^="} -> Num(Bitwise(BitXor, ToInt32(x), ToInt32(y)))
      [] op \in {"&", "&="} -> Num(Bitwise(BitAnd, ToInt32(x), ToInt32(y)))
      [] op \in {">>>", ">>>="} -> Num(ShiftRightUnsigned(ToInt32(x), ToInt32(y) % 32))
      [] op \in {">>", ">>="} -> Num(ShiftRight(ToInt32(x), ToInt32(y) % 32))
      [] op \in {"<<", "<<="} -> Num(ShiftLeft(ToInt32(x), ToInt32(y) % 32))

\* The record of one application, kept when it did not throw: the operator, its
\* operand bindings, the binding it returned, and the values its first operand
\* and its result hold afterwards.
Applied(st, op, kind, args) ==
    IF st.err # "" THEN st
    ELSE [st EXCEPT !.applied =
            Append(@, [op |-> op, kind |-> kind, args |-> args, res |-> st.val,
                       left |-> Read(st, args[1]), out |-> Read(st, st.val)])]

\* The binding the comma operator returns: (a, b) => b
CommaResult(st, a, b) == [st EXCEPT !.val = b]

\* (..., a): the operand itself is the result, unless the write threw.
Returning(w, a) == IF w.err # "" THEN w ELSE [w EXCEPT !.val = a]

\* new Lvalue(v) around a write: the write comes first and may throw.
LvalueAfter(w, v) == IF w.err # "" THEN w ELSE Lvalue(w, v)

\* operations[op].exec(a, b) for the binary operators.
exec2(op, st, a, b) ==
    Applied(
        IF op = "," THEN CommaResult(st, a, b)
        ELSE IF op \in AssignmentOps
        THEN \* (a.value op= b.value, a)
             Returning(Write(st, a, Compute(op, Read(st, a), Read(st, b))), a)
        ELSE Lvalue(st, Compute(op, Read(st, a), Read(st, b))),
        op, "binary", <<a, b>>)

\* new Lvalue(a.value++), new Lvalue(a.value--): the old number is the result.
PostIncrement(op, st, a, old) ==
    LvalueAfter(Write(st, a, Num(IF op = "++" THEN old + 1 ELSE old - 1)), Num(old))

\* new Lvalue(factorial(a.value)); Lvalue's constructor reads a property of its
\* argument, which throws on undefined.
Factorial(st, r) ==
    IF r.val = Hole
    THEN throw([st EXCEPT !.cache = r.cache], "Cannot read property of undefined")
    ELSE Lvalue([st EXCEPT !.cache = r.cache], Num(r.val))

\* operations[op].exec(a) for '++', '--' (postfix) and '!' (factorial).
exec1(op, st, a) ==
    Applied(
        IF op \in {"++", "--"}
        THEN PostIncrement(op, st, a, ToNumber(Read(st, a)))
        ELSE Factorial(st, factorial(st.cache, ToInt32(Read(st, a)))),
        op, "postfix", <<a>>)

\* new Lvalue(++a.value), new Lvalue(--a.value): the new number is the result.
PreIncrement(st, a, new) == LvalueAfter(Write(st, a, Num(new)), Num(new))

\* prefixOps[op](a)
prefixOps(op, st, a) ==
    Applied(
        CASE op = "++" -> PreIncrement(st, a, ToNumber(Read(st, a)) + 1)
          [] op = "--" -> PreIncrement(st, a, ToNumber(Read(st, a)) - 1)
          [] op = "+" -> Lvalue(st, Read(st, a))
          [] op = "-" -> Lvalue(st, Num(-ToNumber(Read(st, a))))
          [] op = "~" -> Lvalue(st, Num(-ToInt32(Read(st, a)) - 1))
          [] op = "!" -> Lvalue(st, Bool(~ToBoolean(Read(st, a)))),
        op, "prefix", <<a>>)

----------------------------------------------------------------------------
(* Parser: the descent.  Every rule takes the call's state and gives the state  *)
(* after it, with st.val the binding it returns; a thrown error unwinds.  A     *)
(* rule that tests what another returned is written as two definitions, the     *)
(* second taking the returned state (or the match length m) as a parameter.     *)

\* The scanner after accepting a match of length m at st.pos.
Accepted(text, st, m) == [st EXCEPT !.pos = accept(text, st.pos, m)]

\* Parser.number, on a match of length m: st.val is Null when there is none.
numberOn(text, st, m) ==
    IF m > 0
    THEN Lvalue(Accepted(text, st, m), parseFloat(Slice(text, st.pos, m)))
    ELSE [st EXCEPT !.val = Null]

\* Parser.number
number(text, st) == numberOn(text, st, regNumber(text, st.pos))

\* this.variables[ret], created with the value 0 when the name is no own
\* property; s is the scanner behind the name.  variables is a plain object, so
\* two names are not ordinary keys:
\*   - once hasOwnProperty is an own property (a variable's object, not a
\*     function), the call this.variables.hasOwnProperty(ret) throws a TypeError;
\*   - __proto__ never becomes an own property: the assignment makes the new
\*     { value: 0, lvalue: false } the prototype of variables, and the read that
\*     follows returns that object, a new one at every reference.
lookup(s, ret) ==
    IF "hasOwnProperty" \in DOMAIN s.variables
    THEN throw(s, "this.variables.hasOwnProperty is not a function")
    ELSE IF ret = "__proto__"
    THEN [s EXCEPT !.objs = Append(@, Num(0)), !.val = ObjRef(Len(s.objs) + 1)]
    ELSE IF ret \in DOMAIN s.variables
    THEN [s EXCEPT !.val = VarRef(ret)]
    ELSE [s EXCEPT !.variables = @ @@ (ret :> [value |-> Num(0), lvalue |-> FALSE]),
                   !.val = VarRef(ret)]

\* Parser.identifier, on a match of length m.
identifierOn(text, st, m) ==
    IF m > 0
    THEN lookup(Accepted(text, st, m), Slice(text, st.pos, m))
    ELSE [st EXCEPT !.val = Null]

\* Parser.identifier
identifier(text, st) == identifierOn(text, st, regIdent(text, st.pos))

\* Whether value() tries a postfix ++/-- behind the binding it parsed: if(!ret.lvalue)
TriesPostfix(st, ret) == ~lvalue(st, ret)

\* The end of Parser.value: r.val is the binding, m the match of regPostfix.
postfixOn(text, r, m) ==
    IF TriesPostfix(r, r.val) /\ m > 0
    THEN exec1(Slice(text, r.pos, m), Accepted(text, r, m), r.val)
    ELSE r

\* Parser.value, when number() gave nothing and identifier() gave r.
valueIdentifier(text, st, r) ==
    IF r.err # "" THEN r
    ELSE IF r.val = Null
    THEN throw(st, "Expected number or identifier")
    ELSE postfixOn(text, r, regPostfix(text, r.pos))

\* Parser.value, when number() gave n: this.number(EX) || this.identifier(EX)
valueNumber(text, st, n) ==
    IF n.val # Null
    THEN postfixOn(text, n, regPostfix(text, n.pos))
    ELSE valueIdentifier(text, st, identifier(text, st))

\* Parser.value
value(text, st) == valueNumber(text, st, number(text, st))

\* A parser in which every binary operator is left-associative.
RightOperandLevelLeft(op, lvl) == lvl + 1

\* The level operator() parses the right operand of op at: right ? lvl : lvl + 1
RightOperandLevel(op, lvl) == IF right(op) THEN lvl ELSE lvl + 1

RECURSIVE operator(_, _, _), operatorLoop(_, _, _), operatorFrom(_, _, _, _),
          prefix(_, _), parenthesis(_, _)

\* Parser.expression
expression(text, st) == operator(text, st, 0)

\* Parser.parenthesis, behind the expression: the closing parenthesis.
closing(text, ret) ==
    IF ret.err # "" THEN ret
    ELSE IF regClosingParenthesis(text, ret.pos) > 0
         THEN Accepted(text, ret, 1)
         ELSE throw(ret, "Expected closing parenthesis")

\* Parser.parenthesis
parenthesis(text, st) ==
    IF regOpenParenthesis(text, st.pos) > 0
    THEN closing(text, expression(text, Accepted(text, st, 1)))
    ELSE value(text, st)

\* this.prefixOps[ret](a), a being what the inner prefix() returned.
prefixApply(op, a) == IF a.err # "" THEN a ELSE prefixOps(op, a, a.val)

\* Parser.prefix, on a match of length m.
prefixOn(text, st, m) ==
    IF m > 0
    THEN prefixApply(Slice(text, st.pos, m), prefix(text, Accepted(text, st, m)))
    ELSE parenthesis(text, st)

\* Parser.prefix
prefix(text, st) == prefixOn(text, st, regPrefix(text, st.pos))

\* Parser.term
term(text, st) == prefix(text, st)

\* The loop of Parser.operator goes round again on r, unless r is a throw.
operatorAgain(text, r, lvl) == IF r.err # "" THEN r ELSE operatorLoop(text, r, lvl)

\* exec(value, b), b being the parsed right operand.
operatorBinary(op, a, b) == IF b.err # "" THEN b ELSE exec2(op, b, a, b.val)

\* A right operand parsed for its extent only: the left operand's value is the
\* result, and nothing the right operand did is kept.
Skipped(s, a, b) ==
    IF b.err # "" THEN b ELSE Lvalue([s EXCEPT !.pos = b.pos], Read(s, a))

\* A parser whose || and && short-circuit.
operatorSwitchShort(text, s, lvl, ret, a) ==
    IF ret \in {"||", "&&"} /\ ToBoolean(Read(s, a)) = (ret = "||")
    THEN operatorAgain(text, Skipped(s, a, operator(text, s, lvl + 1)), lvl)
    ELSE CASE Arity(ret) = 1 -> operatorAgain(text, exec1(ret, s, a), lvl)
           [] Arity(ret) = 2 ->
                 operatorAgain(text,
                     operatorBinary(ret, a,
                                    operator(text, s, RightOperandLevel(ret, lvl))),
                     lvl)

\* A parser that reads the left operand of an operator that does not write before
\* it parses the right operand.
operatorSwitchEager(text, s, lvl, ret, a) ==
    IF Arity(ret) = 2 /\ ret \notin AssignmentOps
    THEN operatorAgain(text,
             operatorBinary(ret, TmpRef(Len(s.tmp) + 1),
                            operator(text, Lvalue(s, Read(s, a)),
                                     RightOperandLevel(ret, lvl))),
             lvl)
    ELSE CASE Arity(ret) = 1 -> operatorAgain(text, exec1(ret, s, a), lvl)
           [] Arity(ret) = 2 ->
                 operatorAgain(text,
                     operatorBinary(ret, a,
                                    operator(text, s, RightOperandLevel(ret, lvl))),
                     lvl)

\* The switch of Parser.operator: ret is the operator matched, s the scanner
\* behind it, a the left operand `value`.
operatorSwitch(text, s, lvl, ret, a) ==
    CASE Arity(ret) = 1 -> operatorAgain(text, exec1(ret, s, a), lvl)
      [] Arity(ret) = 2 ->
            operatorAgain(text,
                operatorBinary(ret, a, operator(text, s, RightOperandLevel(ret, lvl))),
                lvl)
      [] Arity(ret) \notin {1, 2} -> throw(s, "Operator requires too many arguments")

\* One test of the while loop of Parser.operator, on a match of length m.
operatorOn(text, st, lvl, m) ==
    IF m = 0 THEN st
    ELSE operatorSwitch(text, Accepted(text, st, m), lvl, Slice(text, st.pos, m), st.val)

\* The while loop of Parser.operator at level lvl; st.val is `value`.
operatorLoop(text, st, lvl) == operatorOn(text, st, lvl, rules(lvl, text, st.pos))

\* The returns of operator(cur + 1), ..., operator(lvl), in that order: st is what
\* operator(cur + 1) returned, the loop of level cur runs on it, and the result is
\* what operator(cur) returns to operator(cur - 1).
operatorFrom(text, st, cur, lvl) ==
    IF st.err # "" \/ cur < lvl THEN st
    ELSE operatorFrom(text, operatorLoop(text, st, cur), cur - 1, lvl)

\* Parser.operator.  The source descends operator(lvl) -> operator(lvl + 1) -> ...
\* -> operator(NumRules) = term before any loop runs; the same computation is
\* written here from the inside out: the term first, then the loops of levels
\* NumRules - 1 down to lvl (none of them when lvl >= NumRules).
operator(text, st, lvl) == operatorFrom(text, term(text, st), NumRules - 1, lvl)

\* Whether evaluate() parses another expression behind a separator: if (EX.remaining())
ParsesNext(text, st) == remaining(text, st.pos) # ""

RECURSIVE evaluateLoop(_, _)

\* The loop of Parser.evaluate goes round again on r, unless r is a throw.
evaluateAgain(text, r) == IF r.err # "" THEN r ELSE evaluateLoop(text, r)

\* Behind a separator: s is the scanner there, ret the running result.
evaluateNext(text, s, ret) ==
    IF ParsesNext(text, s)
    THEN evaluateAgain(text, expression(text, s))
    ELSE evaluateLoop(text, [s EXCEPT !.val = ret])

\* A loop that returns the running result when no separator matches.
evaluateOnLenient(text, st, m) ==
    IF m = 0 THEN st
    ELSE evaluateNext(text, Accepted(text, st, m), st.val)

\* One round of the loop of Parser.evaluate, on a match of regEOS of length m.
evaluateOn(text, st, m) ==
    IF m = 0 THEN throw(st, "Unexpected character")
    ELSE evaluateNext(text, Accepted(text, st, m), st.val)

\* The while loop of Parser.evaluate; st.val is `ret`.
evaluateLoop(text, st) ==
    IF remaining(text, st.pos) = "" THEN st
    ELSE evaluateOn(text, st, regEOS(text, st.pos))

\* Parser.evaluate on an instance whose variables are vs: the state at the return
\* or at the throw.
evaluate(text, vs, cache) ==
    evaluateAgain(text, expression(text, NewState(vs, cache, skipWhitespace(text, 0))))

----------------------------------------------------------------------------
(* The program as a state machine *)

\* No value: before the first call, and after a call that threw.
None == [t |-> "undefined", n |-> 0]

\* The kind of error a thrown message stands for.
ErrorKind(msg) ==
    CASE msg = "" -> ""
      [] msg = "Cannot assign to an lvalue" -> "ImmutableBindingError"
      [] msg \in {"Expected number or identifier", "Expected closing parenthesis",
                  "Unexpected character"} -> "SyntaxError"
      [] msg = "Operator requires too many arguments" -> "ArityError"
      [] msg \in {"Cannot read property of undefined",
                  "this.variables.hasOwnProperty is not a function"} -> "TypeError"

\* What a finished call shows: its return value or its error, where the scanner
\* stood, and the operators it applied.
Outcome(p, text, r) ==
    [parser |-> p, text |-> text, pos |-> r.pos, err |-> ErrorKind(r.err),
     value |-> IF r.err = "" THEN Read(r, r.val) ELSE None,
     applied |-> r.applied]

\* After construction: every instance holds the six constants, the cache is empty.
Init ==
    /\ variables = [p \in Parsers |-> NewVariables]
    /\ factorialCache = <<>>
    /\ last = [parser |-> "", text |-> "", pos |-> 0, err |-> "", value |-> None,
               applied |-> <<>>]
    /\ calls = 0

\* A call whose writes are undone when it throws.
CommitRollback(vs, p, r) == IF r.err # "" THEN vs ELSE [vs EXCEPT ![p] = r.variables]

\* this.variables after a call: each instance owns its object, whose bindings the
\* call mutates in place, so a throw keeps every write made before it.
Commit(vs, p, r) == [vs EXCEPT ![p] = r.variables]

\* What a call that ended in r leaves behind.
Returned(p, text, r) ==
    /\ variables' = Commit(variables, p, r)
    /\ factorialCache' = r.cache
    /\ last' = Outcome(p, text, r)

\* One call p.evaluate(text), to its return or its throw.
Evaluate(p, text) ==
    /\ calls < MaxCalls
    /\ Returned(p, text, evaluate(text, variables[p], factorialCache))
    /\ calls' = calls + 1

\* Calls on both instances, in any order.
Inputs ==
    {"x=5; x+1", "x", "y", "x = x + 1; y", "y = x", "x++", "--y", "3!",
     "x = 5; (1+1) = 3", "y = 2, true = 1", "x = 1; y = (x = 7) + (2", "x += 2, y++ +",
     "hasOwnProperty = 1", "__proto__ = 5", "__proto__", "__proto__ + (__proto__ = 5)"}

Next == \E p \in Parsers, text \in Inputs : Evaluate(p, text)

Spec == Init /\ [][Next]_vars

----------------------------------------------------------------------------
(* Behaviours that study one call: some set-up calls, then one call of a family *)

\* Calls that only vary the state the studied call starts from.
SetupTexts == {"1", "x = 5; w = 1; 3!"}

NextFamily(Family) ==
    \E text \in (IF calls + 1 < MaxCalls THEN SetupTexts ELSE Family) :
        Evaluate("P1", text)

\* Whether a finished call (its outcome o, the variables vs it left) is the call
\* that ended in r: the same value or the same kind of error, the same variables.
SameOutcome(o, vs, r) ==
    /\ o.err = ErrorKind(r.err)
    /\ o.value = (IF r.err = "" THEN Read(r, r.val) ELSE None)
    /\ vs = r.variables

\* The operators whose results the model's integers hold: all binary operators
\* but / and /=, which get their own, exactly divisible, operands below.
IntegerOps ==
    {",", "=", "+=", "-=", "*=", "%=", "**=", "<<=", ">>=", ">>>=", "&=", "^=", "|=",
     "||", "&&", "|", "^", "&", "==", "===", "!=", "!==", "<", "<=", ">", ">=",
     "<<", ">>", ">>>", "+", "-", "*", "%", "**"}

\* x op1 y op2 z
Chain(p, q) == "x " \o p \o " y " \o q \o " z"
\* x op1 (y op2 z)
GroupRight(p, q) == "x " \o p \o " (y " \o q \o " z)"
\* (x op1 y) op2 z
GroupLeft(p, q) == "(x " \o p \o " y) " \o q \o " z"

\* The statements that give the operands their values.
Operands == "x = 2; y = 3; z = 2; "
DivisibleOperands == "x = 12; y = 6; z = 2; "

----------------------------------------------------------------------------
(* C1: precedence *)

\* The 14-level table as the specification states it, lowest first (its binary
\* levels 1 to 13).
TableLevels ==
    << {","},
       {"=", "+=", "-=", "*=", "/=", "%=", "**=", "<<=", ">>=", ">>>=", "&=", "^=", "|="},
       {"||"}, {"&&"}, {"|"}, {"^"}, {"&"},
       {"==", "===", "!=", "!=="},
       {"<", "<=", ">", ">="},
       {"<<", ">>", ">>>"},
       {"+", "-"},
       {"*", "/", "%"},
       {"**"} >>

TableLevel(op) == CHOOSE i \in 1..Len(TableLevels) : op \in TableLevels[i]

PrecedencePairs ==
    {pq \in IntegerOps \X IntegerOps : TableLevel(pq[1]) # TableLevel(pq[2])}

PrecedenceTexts ==
    {Operands \o Chain(pq[1], pq[2]) : pq \in PrecedencePairs}
    \cup {DivisibleOperands \o "x + y / z", DivisibleOperands \o "x / y - z",
          "a < b << c", "a << b < c", "2+3*4", "(2+3)*4"}

SpecPrecedence == Init /\ [][NextFamily(PrecedenceTexts)]_vars

\* The grouping the table gives x p y q z: the operator of the higher level first.
TableGrouping(p, q) ==
    IF TableLevel(p) < TableLevel(q) THEN GroupRight(p, q) ELSE GroupLeft(p, q)

\* C1: for binary operators p and q of different levels of the table, x p y q z
\* evaluates as the grouping in which the operator of the higher level binds first:
\* the same value or error and the same variables afterwards.
C1_PrecedenceFollowsTable ==
    [][\A pq \in PrecedencePairs :
          last'.text = Operands \o Chain(pq[1], pq[2])
          => SameOutcome(last', variables'["P1"],
                         evaluate(Operands \o TableGrouping(pq[1], pq[2]),
                                  variables["P1"], factorialCache))]_vars

\* C1, the case that refutes it: x < y << z with x = 2, y = 3, z = 2 has been
\* evaluated and gave (2 < 3) << 2 = 4, where the table's 2 < (3 << 2) is true.
C1_RelationalAboveShift ==
    /\ last.text = Operands \o Chain("<", "<<")
    /\ last.err = ""
    /\ last.value = Num(4)

\* The levels of rules in the code: the table with levels 9 and 10 exchanged.
RulesLevel(op) ==
    CASE op \in TableLevels[9] -> 10
      [] op \in TableLevels[10] -> 9
      [] OTHER -> TableLevel(op)

RulesGrouping(p, q) ==
    IF RulesLevel(p) < RulesLevel(q) THEN GroupRight(p, q) ELSE GroupLeft(p, q)

\* What holds in place of C1: x p y q z evaluates as the grouping that the order
\* of rules gives, in which shifts bind looser than relational operators.
PrecedenceFollowsRules ==
    [][\A pq \in PrecedencePairs :
          last'.text = Operands \o Chain(pq[1], pq[2])
          => SameOutcome(last', variables'["P1"],
                         evaluate(Operands \o RulesGrouping(pq[1], pq[2]),
                                  variables["P1"], factorialCache))]_vars

----------------------------------------------------------------------------
(* C5: associativity *)

DividingOps == {"/", "/="}

OperandsFor(p, q) ==
    IF {p, q} \cap DividingOps # {} THEN DivisibleOperands ELSE Operands

\* x /= y q z with a quotient that is no integer.
Fractional == {<<"/=", "+=">>, <<"/=", "**=">>, <<"/=", "<<=">>}

AssociativityPairs ==
    {pq \in (IntegerOps \cup DividingOps) \X (IntegerOps \cup DividingOps) :
        TableLevel(pq[1]) = TableLevel(pq[2])} \ Fractional

AssociativityExamples == {"10-3-2", "2**3**2", "a = b = 3", "20-3-2-1", "2**1**2**3"}

AssociativityTexts ==
    {OperandsFor(pq[1], pq[2]) \o Chain(pq[1], pq[2]) : pq \in AssociativityPairs}
    \cup AssociativityExamples

SpecAssociativity == Init /\ [][NextFamily(AssociativityTexts)]_vars

\* The associativity the specification states: ** and the assignment family
\* group to the right, every other binary operator to the left.
GroupsRight(op) == op \in TableLevels[2] \cup {"**"}

AssociativityGrouping(p, q) ==
    IF GroupsRight(p) THEN GroupRight(p, q) ELSE GroupLeft(p, q)

ValueOf(vs, name) == IF name \in DOMAIN vs THEN vs[name].value ELSE Num(0)

\* C5: for binary operators p and q of one level, x p y q z evaluates as
\* (x p y) q z when the level is left-associative and as x p (y q z) when it is
\* right-associative (** and the assignment family); 10-3-2 is 5, 2**3**2 is 512
\* and a = b = 3 leaves a and b equal to 3.
C5_ChainsGroupByAssociativity ==
    [][/\ \A pq \in AssociativityPairs :
             last'.text = OperandsFor(pq[1], pq[2]) \o Chain(pq[1], pq[2])
             => SameOutcome(last', variables'["P1"],
                            evaluate(OperandsFor(pq[1], pq[2])
                                         \o AssociativityGrouping(pq[1], pq[2]),
                                     variables["P1"], factorialCache))
       /\ last'.text = "10-3-2" => last'.value = Num(5)
       /\ last'.text = "20-3-2-1" => last'.value = Num(14)
       /\ last'.text = "2**3**2" => last'.value = Num(512)
       /\ last'.text = "2**1**2**3" => last'.value = Num(2)
       /\ last'.text = "a = b = 3"
          => /\ last'.value = Num(3)
             /\ ValueOf(variables'["P1"], "a") = Num(3)
             /\ ValueOf(variables'["P1"], "b") = Num(3)]_vars

\* C5's cases have happened: a left-associative chain and a right-associative one.
C5_ChainsEvaluated ==
    \/ last.text = Operands \o Chain("-", "-") /\ last.value = Num(-3)
    \/ last.text = Operands \o Chain("**", "**") /\ last.value = Num(512)

----------------------------------------------------------------------------
(* C9: factorial *)

FactorialTexts ==
    {"5!", "0!", "-1!", "3!", "x!", "x = x + 2; x!", "y = 4 - x; y!", "4!; 2!; 6!",
     "1!", "pi!", "infinity!", "(0 - 7)!"}

NextFactorial == \E p \in Parsers, text \in FactorialTexts : Evaluate(p, text)

SpecFactorial == Init /\ [][NextFactorial]_vars

\* n * (n - 1) * ... * 1
RECURSIVE Product(_)
Product(n) == IF n <= 1 THEN 1 ELSE n * Product(n - 1)

\* What the specification gives for an operand that coerces to the integer n.
FactorialOf(n) == IF n < 1 THEN 1 ELSE Product(n)

\* C9: every index i of the cache with 1 <= i < length holds i!; every
\* application of postfix ! in a call gave the factorial of its operand coerced
\* to an integer, 1 when that is less than 1; 5! is 120, 0! is 1, and -1! applies
\* factorial to -1 and gives 1.
C9_FactorialCacheCorrect ==
    /\ \A i \in 1..(Len(factorialCache) - 1) : factorialCache[i + 1] = Product(i)
    /\ \A k \in 1..Len(last.applied) :
          last.applied[k].op = "!" /\ last.applied[k].kind = "postfix"
          => last.applied[k].out = Num(FactorialOf(ToInt32(last.applied[k].left)))
    /\ last.text \in {"5!", "0!", "-1!", "3!", "1!", "pi!", "infinity!", "(0 - 7)!"}
       => last.err = "" /\ Len(last.applied) >= 1
    /\ last.text = "5!" => last.value = Num(120)
    /\ last.text = "0!" => last.value = Num(1)
    /\ last.text = "-1!"
       => /\ last.value = Num(1)
          /\ last.applied[Len(last.applied)].op = "!"
          /\ last.applied[Len(last.applied)].left = Num(-1)
    /\ last.text = "4!; 2!; 6!" => last.value = Num(720)

\* C9's case has happened: a factorial answered from the cache an earlier call
\* filled, with a longer cache than the operand needs.
C9_CacheHit ==
    /\ last.text = "3!"
    /\ last.value = Num(6)
    /\ Len(factorialCache) = 6

----------------------------------------------------------------------------
(* C4 and C7: the environment *)

\* The operators that write their first operand.
Writes(e) == e.op \in TableLevels[2] \/ e.op \in {"++", "--"}

Max(S) == CHOOSE k \in S : \A j \in S : j <= k

\* The applications in a call's record that wrote the variable name.
WritesTo(log, name) ==
    {k \in 1..Len(log) : Writes(log[k]) /\ log[k].args[1] = VarRef(name)}

\* The value the most recent write gave the variable, before when the call
\* wrote none.
MostRecent(log, ks, before) == IF ks = {} THEN before ELSE log[Max(ks)].left

\* Every variable of the instance holds what the call's most recent write to it
\* stored; one the call did not write holds what it held, 0 if it was never set.
KeepsWrites(before, after, log) ==
    \A name \in DOMAIN before \cup DOMAIN after :
        ValueOf(after, name)
            = MostRecent(log, WritesTo(log, name), ValueOf(before, name))

\* The names whose reads the formulas below follow.
ReadNames == {"x", "y", "__proto__"}

\* C4: a call changes only its own instance's variables; after a call that
\* returns, each variable holds its most recent write and an unwritten one what it
\* held before, 0 if never set; reading a name returns its stored value, 0 for a
\* name never written; evaluate("x=5; x+1") returns 6 and a later evaluate("x") on
\* the same instance returns 5, as a later read returns what any earlier call
\* wrote (__proto__ = 5 included).
C4_EnvironmentPerInstance ==
    [][/\ \A q \in Parsers \ {last'.parser} : variables'[q] = variables[q]
       /\ last'.err = ""
          => KeepsWrites(variables[last'.parser], variables'[last'.parser],
                         last'.applied)
       /\ last'.text \in ReadNames
          => /\ last'.err = ""
             /\ last'.value = ValueOf(variables[last'.parser], last'.text)
       /\ last'.text = "x=5; x+1"
          => last'.value = Num(6) /\ ValueOf(variables'[last'.parser], "x") = Num(5)
       /\ last.text = "x=5; x+1" /\ last'.text = "x" /\ last'.parser = last.parser
          => last'.value = Num(5)
       /\ last.text = "__proto__ = 5" /\ last'.text = "__proto__"
             /\ last'.parser = last.parser
          => last'.value = Num(5)]_vars

\* C4, the case that refutes it: a call that only reads x raised a TypeError,
\* on an instance where an earlier call had used the name hasOwnProperty.
C4_ReadRaises ==
    /\ last.text = "x"
    /\ last.err = "TypeError"
    /\ "hasOwnProperty" \in DOMAIN variables[last.parser]

\* What holds in place of C4, on an instance where hasOwnProperty was never used
\* as a name and for names other than __proto__.
EnvironmentOfOrdinaryNames ==
    [][/\ \A q \in Parsers \ {last'.parser} : variables'[q] = variables[q]
       /\ last'.err = ""
          => KeepsWrites(variables[last'.parser], variables'[last'.parser],
                         last'.applied)
       /\ last'.text \in ReadNames \ {"__proto__"}
             /\ "hasOwnProperty" \notin DOMAIN variables[last'.parser]
          => /\ last'.err = ""
             /\ last'.value = ValueOf(variables[last'.parser], last'.text)
       /\ last'.text = "x=5; x+1" /\ "hasOwnProperty" \notin DOMAIN variables[last'.parser]
          => last'.value = Num(6) /\ ValueOf(variables'[last'.parser], "x") = Num(5)
       /\ last.text = "x=5; x+1" /\ last'.text = "x" /\ last'.parser = last.parser
          => last'.value = Num(5)]_vars

\* C7: a call that raises returns no value, and every write it made before the
\* error keeps its effect while variables it did not write are unchanged; on a
\* fresh instance x = 5; (1+1) = 3 raises and a later evaluate("x") returns 5.
C7_ErrorsKeepWrites ==
    [][/\ last'.err # ""
          => /\ last'.value = None
             /\ KeepsWrites(variables[last'.parser], variables'[last'.parser],
                            last'.applied)
       /\ last'.text = "x = 5; (1+1) = 3" /\ variables[last'.parser] = NewVariables
          => /\ last'.err = "ImmutableBindingError"
             /\ ValueOf(variables'[last'.parser], "x") = Num(5)
       /\ last.text = "x = 5; (1+1) = 3" /\ last'.text = "x"
             /\ last'.parser = last.parser /\ calls = 1
          => last'.value = Num(5)]_vars

\* C7's case has happened: a call wrote x and y and then raised.
C7_RaisedAfterWrite ==
    /\ last.text = "x = 1; y = (x = 7) + (2"
    /\ last.err = "SyntaxError"
    /\ ValueOf(variables[last.parser], "x") = Num(7)
    /\ ValueOf(variables[last.parser], "y") = Num(0)

----------------------------------------------------------------------------
(* C2: the results of the operators that do not write *)

\* The binary operators outside the assignment family.
ResultOps == (IntegerOps \cup {"/"}) \ TableLevels[2]

\* An application of each operator that does not write, on variables.
ResultTerms ==
    {"x " \o op \o " w" : op \in ResultOps} \cup {"x!", "+x", "-x", "!x", "~x"}

\* Each of them as the target of an assignment.
AsTarget(app) == "(" \o app \o ") = 9"

ResultTexts == ResultTerms \cup {AsTarget(app) : app \in ResultTerms}

SpecResults == Init /\ [][NextFamily(ResultTexts)]_vars

Range(f) == {f[i] : i \in DOMAIN f}

\* The binding an application returned is an Lvalue made by it, not an operand.
Fresh(e) == e.res.kind = "tmp" /\ e.res \notin Range(e.args)

\* C2: every application of an operator outside the assignment family and ++/--
\* returns a fresh immutable binding that is neither operand, and a call that
\* assigns to such a result raises ImmutableBindingError and leaves x and w as
\* they were.
C2_ResultsAreFresh ==
    [][/\ \A k \in 1..Len(last'.applied) :
             ~Writes(last'.applied[k]) => Fresh(last'.applied[k])
       /\ last'.text \in {AsTarget(app) : app \in ResultTerms}
          => /\ last'.err = "ImmutableBindingError"
             /\ ValueOf(variables'["P1"], "x") = ValueOf(variables["P1"], "x")
             /\ ValueOf(variables'["P1"], "w") = ValueOf(variables["P1"], "w")]_vars

\* C2, the case that refutes it: (x , w) = 9 returned 9 and w holds 9.
C2_CommaAssigned ==
    /\ last.text = AsTarget("x , w")
    /\ last.err = ""
    /\ last.value = Num(9)
    /\ ValueOf(variables["P1"], "w") = Num(9)

\* What holds in place of C2: the same of every operator but the comma, which
\* returns its right operand's binding.
ResultsAreFreshButComma ==
    [][/\ \A k \in 1..Len(last'.applied) :
             ~Writes(last'.applied[k])
             => IF last'.applied[k].op = ","
                THEN last'.applied[k].res = last'.applied[k].args[2]
                ELSE Fresh(last'.applied[k])
       /\ last'.text \in {AsTarget(app) : app \in ResultTerms \ {"x , w"}}
          => /\ last'.err = "ImmutableBindingError"
             /\ ValueOf(variables'["P1"], "x") = ValueOf(variables["P1"], "x")
             /\ ValueOf(variables'["P1"], "w") = ValueOf(variables["P1"], "w")]_vars

----------------------------------------------------------------------------
(* C3: writes to immutable bindings *)

\* Operands that are no mutable variable: constants, a literal, a computed value.
ImmutableOperands == {"true", "pi", "1", "(1+1)"}

ImmutableTexts ==
    {t \o " " \o op \o " 1" : t \in ImmutableOperands, op \in TableLevels[2]}
    \cup {op \o t : op \in {"++", "--"}, t \in ImmutableOperands}
    \cup {t \o op : t \in ImmutableOperands, op \in {"++", "--"}}

SpecImmutable ==
    Init /\ [][NextFamily(ImmutableTexts \cup {"true = 0", "(1+1) = 3", "x >>>= 1"})]_vars

\* C3: every assignment-family operator and every ++/--, prefix or postfix,
\* applied to an operand that is no mutable variable raises ImmutableBindingError.
C3_ImmutableOperandRaises ==
    last.text \in ImmutableTexts \cup {"true = 0", "(1+1) = 3"}
    => last.err = "ImmutableBindingError"

\* C3, the case that refutes it: true >>>= 1 raised a SyntaxError.
C3_SyntaxErrorInstead ==
    /\ last.text = "true >>>= 1"
    /\ last.err = "SyntaxError"

\* The texts of C3 on which the code raises a SyntaxError: >>>= is never matched
\* (rules[8] takes >> and leaves >=), and a postfix ++/-- is only tried behind a
\* mutable variable.
NeverApplied ==
    {t \o " >>>= 1" : t \in ImmutableOperands}
    \cup {t \o op : t \in ImmutableOperands, op \in {"++", "--"}}

\* What holds in place of C3: ImmutableBindingError on every text but those, on
\* which, and on x >>>= 1, the call raises a SyntaxError.
ImmutableOperandRaisesOrSyntax ==
    /\ last.text \in (ImmutableTexts \ NeverApplied) \cup {"true = 0", "(1+1) = 3"}
       => last.err = "ImmutableBindingError"
    /\ last.text \in NeverApplied \cup {"x >>>= 1"} => last.err = "SyntaxError"

----------------------------------------------------------------------------
(* C8: || and && *)

LogicalLeft == {"0", "1", "true", "false", "w", "x", "(y = 2)"}
LogicalRight == {"(x = 5)", "(x += 5)", "x++", "(y = 1, x = 5)"}

Logical(l, op, r) == l \o " " \o op \o " " \o r

LogicalTexts ==
    {Logical(l, op, r) : l \in LogicalLeft, op \in {"||", "&&"}, r \in LogicalRight}

SpecLogical == Init /\ [][NextFamily(LogicalTexts)]_vars

\* The call returned and left the variables that r left.
SameVariables(o, vs, r) == o.err = "" /\ r.err = "" /\ vs = r.variables

\* C8: l || r and l && r evaluate r whatever l holds: the call leaves the
\* variables that evaluating both operands in turn (l , r) leaves; with the right
\* operand (x = 5), x holds 5 afterwards, and 1 || (x = 5) is 1 and
\* 0 && (x = 5) is 0.
C8_NoShortCircuit ==
    [][/\ \A l \in LogicalLeft, op \in {"||", "&&"}, r \in LogicalRight :
             last'.text = Logical(l, op, r)
             => SameVariables(last', variables'["P1"],
                              evaluate(Logical(l, ",", r), variables["P1"],
                                       factorialCache))
       /\ \A l \in LogicalLeft, op \in {"||", "&&"} :
             last'.text = Logical(l, op, "(x = 5)")
             => ValueOf(variables'["P1"], "x") = Num(5)
       /\ last'.text = "1 || (x = 5)" => last'.value = Num(1)
       /\ last'.text = "0 && (x = 5)" => last'.value = Num(0)
       /\ last'.text = "0 || (x = 5)" => last'.value = Num(5)]_vars

\* C8's cases have happened: the left operand decided the result and the right
\* operand still wrote x.
C8_RightOperandWrote ==
    /\ last.text \in {"1 || (x = 5)", "0 && (x = 5)"}
    /\ last.err = ""
    /\ ValueOf(variables["P1"], "x") = Num(5)
    /\ last.applied[1].op = "="

----------------------------------------------------------------------------
(* C10: when operands are read *)

\* The binary operators that compute a value from both operands (all but /, whose
\* quotients on these operands are no integers).
ReadingOps == IntegerOps \ (TableLevels[2] \cup {","})

Numeral(n) ==
    CASE n = 0 -> "0" [] n = 1 -> "1" [] n = 2 -> "2" [] n = 3 -> "3" [] n = 4 -> "4"
      [] n = 5 -> "5" [] n = 6 -> "6" [] n = 7 -> "7" [] n = 8 -> "8" [] n = 9 -> "9"

\* The values the right operand writes to x.
Written == {2, 3}

\* x op (x = k): the right operand writes the variable the left operand names.
WriteRight(op, k) == "x " \o op \o " (x = " \o Numeral(k) \o ")"

\* x op x++: the right operand increments it and is its old value.
IncrementRight(op) == "x " \o op \o " x++"

\* a op b on literals.
OnLiterals(a, op, b) == Numeral(a) \o " " \o op \o " " \o Numeral(b)

OperandTexts ==
    {WriteRight(op, k) : op \in ReadingOps, k \in Written}
    \cup {IncrementRight(op) : op \in ReadingOps}
    \cup {"x + (x = 5)", "x + x++"}

SpecOperands == Init /\ [][NextFamily(OperandTexts)]_vars

\* The call returned the value r returned.
SameValue(o, r) == o.err = "" /\ r.err = "" /\ o.value = Read(r, r.val)

\* C10: a binary operator reads its operands when it is applied, after the right
\* operand was evaluated: x op (x = k) is k op k, and x op x++ with x holding v is
\* (v + 1) op v; with x initially 0, x + (x = 5) is 10 and x + x++ is 1.
C10_OperandsReadAtApplication ==
    [][/\ \A op \in ReadingOps, k \in Written :
             last'.text = WriteRight(op, k)
             => /\ SameValue(last', evaluate(OnLiterals(k, op, k), NewVariables, <<>>))
                /\ ValueOf(variables'["P1"], "x") = Num(k)
       /\ \A op \in ReadingOps :
             last'.text = IncrementRight(op)
             => /\ SameValue(last',
                             evaluate(OnLiterals(ValueOf(variables["P1"], "x").n + 1, op,
                                                 ValueOf(variables["P1"], "x").n),
                                      NewVariables, <<>>))
                /\ ValueOf(variables'["P1"], "x").n = ValueOf(variables["P1"], "x").n + 1
       /\ last'.text = "x + (x = 5)" /\ ValueOf(variables["P1"], "x") = Num(0)
          => last'.value = Num(10)
       /\ last'.text = "x + x++" /\ ValueOf(variables["P1"], "x") = Num(0)
          => last'.value = Num(1)]_vars

\* C10's case has happened: x held 5, and x - (x = 2) gave 2 - 2.
C10_LeftReadAfterWrite ==
    /\ last.text = WriteRight("-", 2)
    /\ last.value = Num(0)
    /\ ValueOf(variables["P1"], "x") = Num(2)
    /\ ValueOf(variables["P1"], "w") = Num(1)

----------------------------------------------------------------------------
(* C6: statements *)

\* Complete expressions, none of which begins with an operator.
Expressions == {"1", "x", "x = 2", "x + 1", "(1+2)", "x++", "2!", " 7 "}

Separators == {";", " ; ", ";;", "; ;"}

\* Texts that leave input behind an expression, or a parenthesis open.
Malformed == {"(1+2", "1)", "1 2", "(x = 2", "x = (2; 3)", "1 ; 2 3", "1 ; (2", "1 $"}

StatementTexts ==
    Expressions
    \cup {a \o sep : a \in Expressions, sep \in Separators}
    \cup {a \o sep \o b : a \in Expressions, sep \in Separators, b \in Expressions}
    \cup {a \o " " \o b : a \in Expressions, b \in Expressions}
    \cup {"1;2;3", "x = 1; x = x + 1;; x * 5 ;"}
    \cup Malformed

SpecStatements == Init /\ [][NextFamily(StatementTexts)]_vars

\* Evaluating text in the state the call that ended in r left.
Then(text, r) == evaluate(text, r.variables, r.cache)

\* C6: a call returns only with nothing but whitespace left unconsumed; a ; b
\* (any separator of one or more ;) evaluates a, then b, and returns b's value,
\* and a followed by a separator alone returns a's value; two expressions with no
\* separator between them, and an unclosed parenthesis such as (1+2, raise
\* SyntaxError.
C6_WholeInputOrSyntaxError ==
    [][/\ last'.err = ""
          => \A i \in (last'.pos + 1)..Len(last'.text) :
                SubSeq(last'.text, i, i) \in WhitespaceChars
       /\ \A a \in Expressions, sep \in Separators :
             /\ last'.text = a \o sep
                => SameOutcome(last', variables'["P1"],
                               evaluate(a, variables["P1"], factorialCache))
             /\ \A b \in Expressions :
                   last'.text = a \o sep \o b
                   => SameOutcome(last', variables'["P1"],
                                  Then(b, evaluate(a, variables["P1"], factorialCache)))
       /\ \A a \in Expressions, b \in Expressions :
             last'.text = a \o " " \o b => last'.err = "SyntaxError"
       /\ last'.text \in Malformed => last'.err = "SyntaxError"
       /\ last'.text = "1;2;3" => last'.value = Num(3)
       /\ last'.text = "x = 1; x = x + 1;; x * 5 ;" => last'.value = Num(10)]_vars

\* C6's cases have happened: a call returned the last of its expressions, or
\* raised on input left behind an expression.
C6_LastExpressionReturned ==
    \/ last.text = "x = 2;;x + 1" /\ last.value = Num(3) /\ last.pos = Len(last.text)
    \/ last.text = "1 2" /\ last.err = "SyntaxError"

====
